---- MODULE Spec2Model ----
(***************************************************************************)
(* Model of validate_workflow_config.py: the override resolver, the        *)
(* template substitution engine, the restricted expression evaluator, the  *)
(* disabled-subtree pruner and the driver validate_and_output_json.        *)
(*                                                                         *)
(* Text is a sequence of atoms.  An atom is an indivisible run of          *)
(* characters (a digit, a word, a quote, the opening "${" of a             *)
(* placeholder, a whole expression ...); what the code asks about the      *)
(* characters inside an atom is tabulated next to the atom.                *)
(***************************************************************************)
EXTENDS Integers, Sequences, FiniteSets, TLC

VARIABLES
    pc,                 \* position in __main__ / validate_and_output_json
    input,              \* the document as json.load returned it (kept for comparison)
    data,               \* `data`: the loaded document, mutated in place by substitution
    cleaned_data,       \* `cleaned_data`
    runtime_overrides,  \* sys.argv[2]
    overrides,          \* the binding table of apply_runtime_overrides
    schema_paths,       \* len(sys.argv[3:]), the number of schemas supplied
    checked,            \* number of schemas validate() has accepted so far
    stdout,             \* documents printed
    calls,              \* the calls made to validate(): schema, instance, answer
    exit,               \* "running", "zero" or "nonzero"
    error,              \* the exception that ended the run, "none" otherwise
    lookup              \* how this interpreter build fails an undefined name in eval

vars == <<pc, input, data, cleaned_data, runtime_overrides, overrides,
          schema_paths, checked, calls, stdout, exit, error, lookup>>

-----------------------------------------------------------------------------
(* Value model: what json.load yields.                                     *)

Null == [t |-> "null"]
Bool(b) == [t |-> "bool", b |-> b]
Num(n) == [t |-> "num", n |-> n]
\* a float is mant / 10^dec, dec >= 1 unless the fraction is zero
Float(mant, dec) == [t |-> "float", mant |-> mant, dec |-> dec]
Str(s) == [t |-> "str", s |-> s]
Obj(m) == [t |-> "obj", m |-> m]
Arr(e) == [t |-> "arr", e |-> e]

\* an object is the ordered list of its members, keys unique
M(name, v) == [k |-> <<name>>, v |-> v]
K(name) == <<name>>

IsContainer(v) == v.t \in {"obj", "arr"}
IsScalar(v) == v.t \in {"null", "bool", "num", "float", "str"}

\* Python's `x == True`: True, 1 and 1.0 compare equal to True
EqualsTrue(v) == v = Bool(TRUE) \/ v = Num(1) \/ v = Float(1, 0)

HasKey(m, key) == \E i \in 1..Len(m) : m[i].k = key

\* dict.get(key) on the members of an object, with the default None
Get(m, key) ==
    IF HasKey(m, key) THEN m[CHOOSE i \in 1..Len(m) : m[i].k = key].v ELSE Null

-----------------------------------------------------------------------------
(* remove_disabled_elements                                                *)

RECURSIVE remove_disabled_elements(_)
RECURSIVE CleanedList(_)
RECURSIVE CleanedDict(_)

\* [f(item) for item in data if f(item) is not None]
CleanedList(items) ==
    IF items = <<>> THEN <<>>
    ELSE LET first == remove_disabled_elements(Head(items))
         IN  IF first # Null
             THEN <<first>> \o CleanedList(Tail(items))
             ELSE CleanedList(Tail(items))

\* variant: the filter tests the member's value before pruning it
RECURSIVE CleanedDictTestsInput(_)
CleanedDictTestsInput(members) ==
    IF members = <<>> THEN <<>>
    ELSE IF Head(members).v # Null
         THEN <<[k |-> Head(members).k, v |-> remove_disabled_elements(Head(members).v)]>>
              \o CleanedDictTestsInput(Tail(members))
         ELSE CleanedDictTestsInput(Tail(members))

\* {key: f(value) for key, value in data.items() if f(value) is not None}
CleanedDict(members) ==
    IF members = <<>> THEN <<>>
    ELSE LET first == remove_disabled_elements(Head(members).v)
         IN  IF first # Null
             THEN <<[k |-> Head(members).k, v |-> first]>> \o CleanedDict(Tail(members))
             ELSE CleanedDict(Tail(members))

remove_disabled_elements(d) ==
    IF d.t = "obj" THEN
        IF EqualsTrue(Get(d.m, K("disabled"))) THEN Null
        ELSE LET cleaned_dict == CleanedDict(d.m)
             IN  IF cleaned_dict = <<>> THEN Null ELSE Obj(cleaned_dict)
    ELSE IF d.t = "arr" THEN
        LET cleaned_list == CleanedList(d.e)
        IN  IF cleaned_list = <<>> THEN Null ELSE Arr(cleaned_list)
    ELSE d

-----------------------------------------------------------------------------
(* Text: atoms and the character tests the code makes on them.             *)

marker == "___TEMP_MARKER___"
Quote == "\""
Open == "${"
Close == "}"

DigitAtoms == {"0", "1", "2", "3", "4", "5", "6", "7", "8", "9"}

DigitVal(a) ==
    CASE a = "0" -> 0 [] a = "1" -> 1 [] a = "2" -> 2 [] a = "3" -> 3
      [] a = "4" -> 4 [] a = "5" -> 5 [] a = "6" -> 6 [] a = "7" -> 7
      [] a = "8" -> 8 [] a = "9" -> 9

DigitAtom(n) ==
    CASE n = 0 -> "0" [] n = 1 -> "1" [] n = 2 -> "2" [] n = 3 -> "3"
      [] n = 4 -> "4" [] n = 5 -> "5" [] n = 6 -> "6" [] n = 7 -> "7"
      [] n = 8 -> "8" [] n = 9 -> "9"

\* the literals an override token can carry, with what json.loads /
\* ast.literal_eval make of them ("raise" when the literal is malformed)
ObjectLiteral == "{\"a\":1}"
DisabledLiteral == "{\"disabled\":true}"
BadObjectLiteral == "{oops}"
ListLiteral == "[1,2]"
BadListLiteral == "[1,"

json_loads(tok) ==
    IF tok = <<ObjectLiteral>> THEN [r |-> "ok", v |-> Obj(<<M("a", Num(1))>>)]
    ELSE IF tok = <<DisabledLiteral>> THEN [r |-> "ok", v |-> Obj(<<M("disabled", Bool(TRUE))>>)]
    ELSE [r |-> "raise", e |-> "JSONDecodeError"]

literal_eval(tok) ==
    IF tok = <<ListLiteral>> THEN [r |-> "ok", v |-> Arr(<<Num(1), Num(2)>>)]
    ELSE [r |-> "raise", e |-> "SyntaxError"]

\* first and last character of an atom, as far as the code looks at them
FirstCh(a) ==
    IF a \in {ObjectLiteral, DisabledLiteral, BadObjectLiteral} THEN "{"
    ELSE IF a \in {ListLiteral, BadListLiteral} THEN "["
    ELSE IF a = Quote THEN Quote
    ELSE "other"

LastCh(a) ==
    IF a \in {ObjectLiteral, DisabledLiteral, BadObjectLiteral, Close} THEN "}"
    ELSE IF a \in {ListLiteral} THEN "]"
    ELSE IF a = Quote THEN Quote
    ELSE "other"

Last(s) == s[Len(s)]

\* str.startswith(c) / str.endswith(c) for a one-character c
startswith(s, c) == s # <<>> /\ FirstCh(Head(s)) = c
endswith(s, c) == s # <<>> /\ LastCh(Last(s)) = c

\* str.lower() of the words the resolver compares
LowerAtom(a) ==
    IF a \in {"true", "True", "TRUE"} THEN "true"
    ELSE IF a \in {"false", "False", "FALSE"} THEN "false"
    ELSE IF a \in {"null", "Null", "NULL"} THEN "null"
    ELSE IF a \in {"none", "None", "NONE"} THEN "none"
    ELSE a

lower(s) == [i \in 1..Len(s) |-> LowerAtom(s[i])]

\* str.strip('"')
RECURSIVE lstrip_quote(_)
lstrip_quote(s) ==
    IF s # <<>> /\ Head(s) = Quote THEN lstrip_quote(Tail(s)) ELSE s

RECURSIVE rstrip_quote(_)
rstrip_quote(s) ==
    IF s # <<>> /\ Last(s) = Quote THEN rstrip_quote(SubSeq(s, 1, Len(s) - 1)) ELSE s

strip_quote(s) == rstrip_quote(lstrip_quote(s))

\* str.replace(marker, "")
RECURSIVE remove_marker(_)
remove_marker(s) ==
    IF s = <<>> THEN <<>>
    ELSE IF Head(s) = marker THEN remove_marker(Tail(s))
    ELSE <<Head(s)>> \o remove_marker(Tail(s))

\* str.split(sep): the list of pieces between the separators
RECURSIVE split(_, _)
split(s, sep) ==
    IF \A i \in 1..Len(s) : s[i] # sep THEN <<s>>
    ELSE LET i == CHOOSE j \in 1..Len(s) : s[j] = sep /\ \A h \in 1..(j - 1) : s[h] # sep
         IN  <<SubSeq(s, 1, i - 1)>> \o split(SubSeq(s, i + 1, Len(s)), sep)

\* str.split(sep, 1): at most one cut
split1(s, sep) ==
    IF \A i \in 1..Len(s) : s[i] # sep THEN <<s>>
    ELSE LET i == CHOOSE j \in 1..Len(s) : s[j] = sep /\ \A h \in 1..(j - 1) : s[h] # sep
         IN  <<SubSeq(s, 1, i - 1), SubSeq(s, i + 1, Len(s))>>

-----------------------------------------------------------------------------
(* int(), float() and str() on text                                        *)

AllDigits(s) == s # <<>> /\ \A i \in 1..Len(s) : s[i] \in DigitAtoms

RECURSIVE DigitsValue(_)
DigitsValue(s) ==
    IF s = <<>> THEN 0 ELSE 10 * DigitsValue(SubSeq(s, 1, Len(s) - 1)) + DigitVal(Last(s))

Unsigned(s) == IF s # <<>> /\ Head(s) \in {"-", "+"} THEN Tail(s) ELSE s
Sign(s) == IF s # <<>> /\ Head(s) = "-" THEN -1 ELSE 1

\* int(text) succeeds on an optionally signed run of digits
IsInt(s) == AllDigits(Unsigned(s))
IntOf(s) == Sign(s) * DigitsValue(Unsigned(s))

\* float(text) succeeds, beyond the integers, on digits "." digits with a
\* digit on at least one side
IsFloat(s) ==
    LET u == Unsigned(s)
    IN  \/ AllDigits(u)
        \/ \E i \in 1..Len(u) :
              /\ u[i] = "."
              /\ \A j \in (1..Len(u)) \ {i} : u[j] \in DigitAtoms
              /\ Len(u) > 1

RECURSIVE Normalize(_, _)
Normalize(mant, dec) ==
    IF dec > 0 /\ mant % 10 = 0 THEN Normalize(mant \div 10, dec - 1)
    ELSE Float(mant, dec)

FloatOf(s) ==
    LET u == Unsigned(s)
    IN  IF AllDigits(u) THEN Float(Sign(s) * DigitsValue(u), 0)
        ELSE LET i == CHOOSE j \in 1..Len(u) : u[j] = "."
                 whole == SubSeq(u, 1, i - 1)
                 frac == SubSeq(u, i + 1, Len(u))
                 n == Normalize(DigitsValue(whole \o frac), Len(frac))
             IN  Float(Sign(s) * n.mant, n.dec)

RECURSIVE NatText(_)
NatText(n) == IF n < 10 THEN <<DigitAtom(n)>> ELSE NatText(n \div 10) \o <<DigitAtom(n % 10)>>

\* str(int)
IntText(n) == IF n < 0 THEN <<"-">> \o NatText(-n) ELSE NatText(n)

RECURSIVE Pow10(_)
Pow10(d) == IF d = 0 THEN 1 ELSE 10 * Pow10(d - 1)

RECURSIVE PadLeft(_, _)
PadLeft(s, width) == IF Len(s) >= width THEN s ELSE PadLeft(<<"0">> \o s, width)

\* str(float), for the magnitudes Python prints without an exponent
FloatText(f) ==
    LET a == IF f.mant < 0 THEN -f.mant ELSE f.mant
        whole == NatText(a \div Pow10(f.dec))
        frac == IF f.dec = 0 THEN <<"0">> ELSE PadLeft(NatText(a % Pow10(f.dec)), f.dec)
    IN  (IF f.mant < 0 THEN <<"-">> ELSE <<>>) \o whole \o <<".">> \o frac

-----------------------------------------------------------------------------
(* Outcomes of a call: a returned value or a raised exception              *)

Ok(v) == [r |-> "ok", v |-> v]
Raise(e) == [r |-> "raise", e |-> e]

\* d[key] = v on the binding table
Put(d, key, v) == [x \in (DOMAIN d) \cup {key} |-> IF x = key THEN v ELSE d[x]]

\* overrides.get(key)
Lookup(d, key) == IF key \in DOMAIN d THEN d[key] ELSE Null

-----------------------------------------------------------------------------
(* apply_runtime_overrides, lines 81-114: the binding table                *)

\* the if/elif chain that types one override token
Coerce(value) ==
    IF startswith(value, "{") /\ endswith(value, "}") THEN json_loads(value)
    ELSE IF startswith(value, "[") /\ endswith(value, "]") THEN literal_eval(value)
    ELSE IF lower(value) = <<"true">> THEN Ok(Bool(TRUE))
    ELSE IF lower(value) = <<"false">> THEN Ok(Bool(FALSE))
    ELSE IF lower(value) = <<"null">> \/ lower(value) = <<"none">> THEN Ok(Null)
    ELSE IF IsInt(value) THEN Ok(Num(IntOf(value)))
    ELSE IF IsFloat(value) THEN Ok(FloatOf(value))
    ELSE Ok(Str(strip_quote(value)))

\* the key with its typed value, or the exception the typing raised
TypedPair(key, typed) ==
    IF typed.r = "raise" THEN typed ELSE Ok([k |-> key, v |-> typed.v])

\* key, value = kv: unpacking fewer than two pieces raises
UnpackPair(kv) ==
    IF Len(kv) < 2 THEN Raise("ValueError") ELSE TypedPair(kv[1], Coerce(kv[2]))

\* key, value = pair.split("=", 1) and the typing of value
ParsePair(pair) == UnpackPair(split1(pair, "="))

RECURSIVE ParsePairs(_, _)

\* overrides[key] = value, then the rest of the loop
StorePair(p, pairs, acc) ==
    IF p.r = "raise" THEN p ELSE ParsePairs(Tail(pairs), Put(acc, p.v.k, p.v.v))

\* for pair in runtime_overrides.split(";"): overrides[key] = ...
ParsePairs(pairs, acc) ==
    IF pairs = <<>> THEN Ok(acc) ELSE StorePair(ParsePair(Head(pairs)), pairs, acc)

ParseOverrides(text) ==
    IF text = <<>> THEN Ok(<<>>) ELSE ParsePairs(split(text, ";"), <<>>)

\* variant: every default is written, the last writer wins
RECURSIVE MergeDefaultLastWins(_, _)
MergeDefaultLastWins(members, acc) ==
    IF members = <<>> THEN acc
    ELSE MergeDefaultLastWins(Tail(members), Put(acc, Head(members).k, Head(members).v))

\* for key, value in default.items(): if key not in overrides: overrides[key] = value
RECURSIVE MergeDefault(_, _)
MergeDefault(members, acc) ==
    IF members = <<>> THEN acc
    ELSE LET key == Head(members).k
         IN  MergeDefault(Tail(members),
                          IF key \notin DOMAIN acc THEN Put(acc, key, Head(members).v) ELSE acc)

\* for default in defaults: ...
RECURSIVE MergeDefaults(_, _)
MergeDefaults(defaults, acc) ==
    IF defaults = <<>> THEN acc
    ELSE MergeDefaults(Tail(defaults), MergeDefault(Head(defaults).m, acc))

\* data.get("defaults", []) as the list of its elements
DefaultsOf(doc) ==
    IF HasKey(doc.m, K("defaults")) THEN Get(doc.m, K("defaults")).e ELSE <<>>

\* data.pop("defaults", None)
RECURSIVE PopDefaults(_)
PopDefaults(members) ==
    IF members = <<>> THEN <<>>
    ELSE IF Head(members).k = K("defaults") THEN PopDefaults(Tail(members))
    ELSE <<Head(members)>> \o PopDefaults(Tail(members))

\* lines 111-114 on the parsed overrides
WithDefaults(defaults, parsed) ==
    IF parsed.r = "raise" THEN parsed ELSE Ok(MergeDefaults(defaults, parsed.v))

\* the binding table for a document and an override string
BuildOverrides(doc, text) == WithDefaults(DefaultsOf(doc), ParseOverrides(text))

-----------------------------------------------------------------------------
(* Expressions: syntax trees as ast.parse(expression, mode='eval') builds  *)
(* them, for the expression sources that occur in the documents.           *)

IfExpNode(test, body, orelse) == [k |-> "IfExp", test |-> test, body |-> body, orelse |-> orelse]
CompareNode(left, op, right) == [k |-> "Compare", left |-> left, op |-> op, right |-> right]
BoolOpNode(op, values) == [k |-> "BoolOp", op |-> op, values |-> values]
NameNode(id) == [k |-> "Name", id |-> <<id>>]
ConstNode(value) == [k |-> "Constant", value |-> value]
CallNode(func, args) == [k |-> "Call", func |-> func, args |-> args]

ExprBool == "True if x == 1 else False"
ExprString == "'12' if x == 1 else 'b'"
ExprNone == "None if x == 1 else 3"
ExprLazy == "7 if x == 1 else y"
ExprCall == "len(x) if x == 1 else 2"
ExprAnd == "1 if x == 1 and x < 2 else 2"
NameElseIf == "elseif"

XIsOne == CompareNode(NameNode("x"), "Eq", ConstNode(Num(1)))

\* ast.parse on an expression text
parse(expression) ==
    IF expression = <<ExprBool>> THEN
        Ok(IfExpNode(XIsOne, ConstNode(Bool(TRUE)), ConstNode(Bool(FALSE))))
    ELSE IF expression = <<ExprString>> THEN
        Ok(IfExpNode(XIsOne, ConstNode(Str(<<"1", "2">>)), ConstNode(Str(<<"b">>))))
    ELSE IF expression = <<ExprNone>> THEN
        Ok(IfExpNode(XIsOne, ConstNode(Null), ConstNode(Num(3))))
    ELSE IF expression = <<ExprLazy>> THEN
        Ok(IfExpNode(XIsOne, ConstNode(Num(7)), NameNode("y")))
    ELSE IF expression = <<ExprCall>> THEN
        Ok(IfExpNode(XIsOne, CallNode(NameNode("len"), <<NameNode("x")>>), ConstNode(Num(2))))
    ELSE IF expression = <<ExprAnd>> THEN
        Ok(IfExpNode(BoolOpNode("And", <<XIsOne, CompareNode(NameNode("x"), "Lt", ConstNode(Num(2)))>>),
                     ConstNode(Num(1)), ConstNode(Num(2))))
    ELSE IF expression = <<NameElseIf>> THEN Ok(NameNode(NameElseIf))
    ELSE Raise("SyntaxError")

\* `"if" in full_expression`, `"else" in full_expression`
ContainsIf(expression) ==
    \E i \in 1..Len(expression) :
        expression[i] \in {ExprBool, ExprString, ExprNone, ExprLazy, ExprCall, ExprAnd, NameElseIf, "if"}

ContainsElse(expression) ==
    \E i \in 1..Len(expression) :
        expression[i] \in {ExprBool, ExprString, ExprNone, ExprLazy, ExprCall, ExprAnd, NameElseIf, "else"}

\* the classes of the nodes ast.walk(tree) yields below the Expression root
RECURSIVE NodeKinds(_)
NodeKinds(n) ==
    IF n.k = "IfExp" THEN {"IfExp"} \cup NodeKinds(n.test) \cup NodeKinds(n.body) \cup NodeKinds(n.orelse)
    ELSE IF n.k = "Compare" THEN {"Compare", n.op} \cup NodeKinds(n.left) \cup NodeKinds(n.right)
    ELSE IF n.k = "BoolOp" THEN
        {"BoolOp", n.op} \cup UNION {NodeKinds(n.values[i]) : i \in 1..Len(n.values)}
    ELSE IF n.k = "Call" THEN
        {"Call"} \cup NodeKinds(n.func) \cup UNION {NodeKinds(n.args[i]) : i \in 1..Len(n.args)}
    ELSE IF n.k = "Name" THEN {"Name", "Load"}
    ELSE {"Constant"}

allowed_types ==
    {"Expression", "IfExp", "Compare", "BoolOp", "Name", "Load", "Constant",
     "Eq", "NotEq", "Lt", "LtE", "Gt", "GtE"}

\* the two ways an interpreter build fails the lookup of an undefined name
\* under eval(code, {'__builtins__': None}, context)
SubscriptError == "TypeError: 'NoneType' object is not subscriptable"
LookupFailures == {SubscriptError, "NameError"}

IsNumeric(v) == v.t \in {"bool", "num", "float"}
Mant(v) == IF v.t = "bool" THEN (IF v.b THEN 1 ELSE 0) ELSE IF v.t = "num" THEN v.n ELSE v.mant
Dec(v) == IF v.t = "float" THEN v.dec ELSE 0
NumLess(a, b) == Mant(a) * Pow10(Dec(b)) < Mant(b) * Pow10(Dec(a))
NumEq(a, b) == Mant(a) * Pow10(Dec(b)) = Mant(b) * Pow10(Dec(a))

PyEq(a, b) == IF IsNumeric(a) /\ IsNumeric(b) THEN NumEq(a, b) ELSE a = b

Truthy(v) ==
    IF v.t = "null" THEN FALSE
    ELSE IF IsNumeric(v) THEN Mant(v) # 0
    ELSE v.s # <<>>

\* a comparison of two scalars; ordering is defined between numbers, the
\* expressions above order no two strings
CompareValues(a, op, b) ==
    IF op = "Eq" THEN Ok(Bool(PyEq(a, b)))
    ELSE IF op = "NotEq" THEN Ok(Bool(~PyEq(a, b)))
    ELSE IF ~(IsNumeric(a) /\ IsNumeric(b)) THEN Raise("TypeError")
    ELSE IF op = "Lt" THEN Ok(Bool(NumLess(a, b)))
    ELSE IF op = "LtE" THEN Ok(Bool(~NumLess(b, a)))
    ELSE IF op = "Gt" THEN Ok(Bool(NumLess(b, a)))
    ELSE Ok(Bool(~NumLess(a, b)))

\* eval(code, {'__builtins__': None}, context) on a tree of allowed nodes
RECURSIVE Eval(_, _)
Eval(n, context) ==
    IF n.k = "Constant" THEN Ok(n.value)
    ELSE IF n.k = "Name" THEN
        IF n.id \in DOMAIN context THEN Ok(context[n.id]) ELSE Raise(lookup)
    ELSE IF n.k = "Compare" THEN
        LET l == Eval(n.left, context)
        IN  IF l.r = "raise" THEN l
            ELSE LET rt == Eval(n.right, context)
                 IN  IF rt.r = "raise" THEN rt ELSE CompareValues(l.v, n.op, rt.v)
    ELSE \* IfExp: only the chosen branch is evaluated
        LET c == Eval(n.test, context)
        IN  IF c.r = "raise" THEN c
            ELSE IF Truthy(c.v) THEN Eval(n.body, context) ELSE Eval(n.orelse, context)

\* lines 140-147: the handlers around eval
EvalOutcome(res) ==
    IF res.r = "raise" /\ res.e = SubscriptError THEN Raise("SystemExit") ELSE res

\* lines 126-139: the node check, then eval
CheckedEval(tree, context) ==
    IF tree.r = "raise" THEN tree
    ELSE IF ~(NodeKinds(tree.v) \subseteq allowed_types) THEN Raise("ValueError")
    ELSE EvalOutcome(Eval(tree.v, context))

\* lines 124-147
safe_evaluate_condition(expression, context) == CheckedEval(parse(expression), context)

\* lines 159-165: the bindings that are neither dict nor list
ScalarBindings(d) == [key \in {x \in DOMAIN d : ~IsContainer(d[x])} |-> d[key]]

\* lines 158-174; `except Exception: raise` lets every outcome through
evaluate_conditional(expression, d) ==
    safe_evaluate_condition(expression, ScalarBindings(d))

-----------------------------------------------------------------------------
(* replace_variable and its regex callback `replace`                       *)

\* str(result) of a scalar
StrOf(v) ==
    IF v.t = "bool" THEN (IF v.b THEN <<"True">> ELSE <<"False">>)
    ELSE IF v.t = "num" THEN IntText(v.n)
    ELSE IF v.t = "float" THEN FloatText(v)
    ELSE IF v.t = "null" THEN <<"None">>
    ELSE v.s

\* match.group(0)
Group0(full_expression) == <<Open>> \o full_expression \o <<Close>>

\* variant: the callback catches Exception
ReplaceCatchesException(e) == e # "SystemExit"

\* line 257: the exceptions the callback catches and turns into the matched text
ReplaceCatches(e) == e = "ValueError"

\* lines 262-273: a regular variable substitution
RenderVariable(full_expression, d) ==
    LET replacement == Lookup(d, full_expression)
    IN  IF IsContainer(replacement) THEN <<marker>> \o full_expression
        ELSE IF replacement = Null THEN Group0(full_expression)
        ELSE IF replacement.t = "bool" THEN (IF replacement.b THEN <<"true">> ELSE <<"false">>)
        ELSE IF replacement.t \in {"num", "float"} THEN StrOf(replacement)
        ELSE <<Quote>> \o replacement.s \o <<Quote>>

\* lines 252-256: how the result of a conditional becomes text
RenderConditional(full_expression, result) ==
    IF result = Null THEN Group0(full_expression) ELSE StrOf(result)

\* lines 250-259: the text for a conditional, from the outcome of its evaluation
ConditionalText(full_expression, res) ==
    IF res.r = "raise"
    THEN IF ReplaceCatches(res.e) THEN Ok(Group0(full_expression)) ELSE res
    ELSE Ok(RenderConditional(full_expression, res.v))

\* lines 244-273
replace(full_expression, d) ==
    IF ContainsIf(full_expression) /\ ContainsElse(full_expression)
    THEN ConditionalText(full_expression, evaluate_conditional(full_expression, d))
    ELSE Ok(RenderVariable(full_expression, d))

\* the pattern \${([^}]+)} matches at the head of s
MatchesAtHead(s) ==
    /\ Len(s) >= 3
    /\ s[1] = Open
    /\ s[2] # Close
    /\ \E j \in 3..Len(s) : s[j] = Close

MatchEnd(s) == CHOOSE j \in 3..Len(s) : s[j] = Close /\ \A h \in 2..(j - 1) : s[h] # Close

\* a piece of the result followed by the rest; the leftmost exception wins
Joined(first, rest) ==
    IF first.r = "raise" THEN first
    ELSE IF rest.r = "raise" THEN rest
    ELSE Ok(first.v \o rest.v)

\* re.sub(pattern, replace, value): leftmost matches, left to right
RECURSIVE re_sub(_, _)
re_sub(s, d) ==
    IF s = <<>> THEN Ok(<<>>)
    ELSE IF MatchesAtHead(s)
    THEN Joined(replace(SubSeq(s, 2, MatchEnd(s) - 1), d),
                re_sub(SubSeq(s, MatchEnd(s) + 1, Len(s)), d))
    ELSE Joined(Ok(<<Head(s)>>), re_sub(Tail(s), d))

\* lines 277-295: the value a substituted text is returned as
PostProcess(result) ==
    IF startswith(result, Quote) /\ endswith(result, Quote)
    THEN Str(SubSeq(result, 2, Len(result) - 1))
    ELSE IF result = <<"true">> \/ result = <<"false">> THEN Bool(result = <<"true">>)
    ELSE IF result = <<"null">> THEN Str(result)
    ELSE IF IsInt(result) THEN Num(IntOf(result))
    ELSE IF IsFloat(result) THEN FloatOf(result)
    ELSE Str(result)

\* lines 275-295 on the outcome of re.sub
Returned(result) ==
    IF result.r = "raise" THEN result ELSE Ok(PostProcess(result.v))

\* lines 238-295, for a string value
replace_variable(s, d) == Returned(re_sub(s, d))

-----------------------------------------------------------------------------
(* replace_variables                                                       *)

StartsWithMarker(s) == s # <<>> /\ Head(s) = marker

\* variant: the result of replace_variable is stored without the marker test
ReplaceStringKeepsMarker(s, d) ==
    IF StartsWithMarker(s) THEN Ok(Lookup(d, remove_marker(s)))
    ELSE replace_variable(s, d)

\* lines 196-205 and 224-233: the marker test on what replace_variable returned
Unmarked(r, d) ==
    IF r.r = "raise" THEN r
    ELSE IF r.v.t = "str" /\ StartsWithMarker(r.v.s)
    THEN Ok(Lookup(d, remove_marker(r.v.s)))
    ELSE r

\* lines 186-205 and 214-233: one string member or element
ReplaceString(s, d) ==
    IF StartsWithMarker(s) THEN Ok(Lookup(d, remove_marker(s)))
    ELSE Unmarked(replace_variable(s, d), d)

RECURSIVE replace_variables(_, _)
RECURSIVE ReplaceMembers(_, _)
RECURSIVE ReplaceItems(_, _)

\* lines 185-207 and 213-235: a string is substituted, anything else walked
ReplaceValue(value, d) ==
    IF value.t = "str" THEN ReplaceString(value.s, d) ELSE replace_variables(value, d)

\* obj[key] = the new value, for a member and then the members after it
StoredMember(key, first, rest) ==
    IF first.r = "raise" THEN first
    ELSE IF rest.r = "raise" THEN rest
    ELSE Ok(<<[k |-> key, v |-> first.v]>> \o rest.v)

\* for key, value in obj.items(): obj[key] = ...
ReplaceMembers(members, d) ==
    IF members = <<>> THEN Ok(<<>>)
    ELSE StoredMember(Head(members).k, ReplaceValue(Head(members).v, d),
                      ReplaceMembers(Tail(members), d))

\* obj[i] = the new value, for an element and then the elements after it
StoredItem(first, rest) ==
    IF first.r = "raise" THEN first
    ELSE IF rest.r = "raise" THEN rest
    ELSE Ok(<<first.v>> \o rest.v)

\* for i, item in enumerate(obj): obj[i] = ...
ReplaceItems(items, d) ==
    IF items = <<>> THEN Ok(<<>>)
    ELSE StoredItem(ReplaceValue(Head(items), d), ReplaceItems(Tail(items), d))

\* the dict or list that was walked, as the value returned on line 236
Walked(t, r) ==
    IF r.r = "raise" THEN r ELSE Ok(IF t = "obj" THEN Obj(r.v) ELSE Arr(r.v))

\* lines 177-236
replace_variables(obj, d) ==
    IF obj.t = "obj" THEN Walked("obj", ReplaceMembers(obj.m, d))
    ELSE IF obj.t = "arr" THEN Walked("arr", ReplaceItems(obj.e, d))
    ELSE Ok(obj)

\* line 305: the document replace_variables returns, with the table it used
Replaced(r, table) ==
    IF r.r = "raise" THEN r ELSE Ok([doc |-> r.v, overrides |-> table])

\* lines 116-305, once the binding table is built or has failed
Substitution(popped, table) ==
    IF table.r = "raise" THEN table
    ELSE Replaced(replace_variables(popped, table.v), table.v)

\* line 114: data.pop("defaults", None) when the defaults are not empty
Popped(doc) ==
    IF DefaultsOf(doc) # <<>> THEN Obj(PopDefaults(doc.m)) ELSE doc

\* lines 63-305: the returned document together with the binding table
apply_runtime_overrides(doc, text) ==
    IF DefaultsOf(doc) = <<>> /\ text = <<>> THEN Ok([doc |-> doc, overrides |-> <<>>])
    ELSE Substitution(Popped(doc), BuildOverrides(doc, text))

-----------------------------------------------------------------------------
(* Inputs                                                                  *)

MaxSchemas == 2
MaxDefaults == 2
MaxItems == 2

StringTexts ==
    { <<"a">>, <<"1", "2">>, <<"true">>, <<"null">>, <<Quote, "a", Quote>>,
      <<"1", ".", "5">>, <<>>,
      <<Open, "x", Close>>, <<Open, "o", Close>>, <<Open, "u", Close>>,
      <<"p", Open, "o", Close>>, <<Open, "o", Close, "s">>, <<"n", Open, "x", Close>>,
      <<Open, ExprBool, Close>>, <<Open, ExprString, Close>>, <<Open, ExprNone, Close>>,
      <<Open, ExprLazy, Close>>, <<Open, ExprCall, Close>>, <<Open, ExprAnd, Close>>,
      <<Open, NameElseIf, Close>>, <<marker, "o">> }

DocLeaves == {Str(t) : t \in StringTexts} \cup {Null, Bool(TRUE), Num(5)}

FieldValues ==
    DocLeaves
    \cup {Obj(<<M("k", v)>>) : v \in DocLeaves}
    \cup {Arr(<<v>>) : v \in DocLeaves}
    \cup { Obj(<<>>), Arr(<<>>),
           Obj(<<M("disabled", Bool(TRUE)), M("k", Num(5))>>),
           Obj(<<M("disabled", Bool(FALSE)), M("k", Num(5))>>),
           Obj(<<M("disabled", Num(1)), M("k", Num(5))>>),
           Obj(<<M("disabled", Str(<<"true">>)), M("k", Num(5))>>),
           Arr(<<Obj(<<M("disabled", Bool(TRUE))>>), Num(5)>>) }

ObjectB == Obj(<<M("b", Num(2))>>)

DefaultObjects ==
    { Obj(<<M("x", Num(1))>>),
      Obj(<<M("x", Num(2)), M("o", ObjectB)>>),
      Obj(<<M("o", Arr(<<Num(1), Num(2)>>)), M("y", Str(<<"a">>)), [k |-> <<"o", "s">>, v |-> Num(5)]>>) }

RECURSIVE SeqsUpTo(_, _)
SeqsUpTo(S, n) ==
    IF n = 0 THEN {<<>>}
    ELSE LET shorter == SeqsUpTo(S, n - 1)
         IN  shorter \cup {Append(q, e) : q \in shorter, e \in S}

DefaultsMembers ==
    {<<>>} \cup {<<M("defaults", Arr(l))>> : l \in SeqsUpTo(DefaultObjects, MaxDefaults)}

\* the defaults every field value is paired with
FewDefaultsMembers ==
    { <<>>,
      <<M("defaults", Arr(<<Obj(<<M("x", Num(1))>>)>>))>>,
      <<M("defaults", Arr(<<Obj(<<M("x", Num(2)), M("o", ObjectB)>>)>>))>> }

\* the field values every defaults list is paired with
FewFieldValues ==
    { Str(<<"n", Open, "x", Close>>), Str(<<Open, "o", Close>>),
      Str(<<Open, ExprLazy, Close>>), Num(5) }

Docs ==
    {Obj(dm \o <<M("f", v)>>) : dm \in FewDefaultsMembers, v \in FieldValues}
    \cup {Obj(dm \o <<M("f", v)>>) : dm \in DefaultsMembers, v \in FewFieldValues}

OverrideTexts ==
    { <<>>,
      <<"x", "=", "1">>,
      <<"x", "=", "2", ";", "o", "=", ListLiteral>>,
      <<"x", "=", "a">>,
      <<"x", "=", Quote, "a", Quote>>,
      <<"x", "=", "None">>,
      <<"x", "=", "TRUE">>,
      <<"x", "=", "1", ".", "5">>,
      <<"o", "=", ObjectLiteral, ";", "y", "=", "1">>,
      <<"y", "=", "1">>,
      <<NameElseIf, "=", ObjectLiteral>>,
      <<"o", "=", BadObjectLiteral>>,
      <<"x">> }

Verdicts == {"conforms", "ValidationError", "SchemaError"}

-----------------------------------------------------------------------------
(* __main__ and validate_and_output_json                                   *)

Init ==
    /\ pc = "start"
    /\ input \in Docs
    /\ data = Null
    /\ cleaned_data = Null
    /\ runtime_overrides \in OverrideTexts
    /\ overrides = <<>>
    /\ schema_paths \in 0..MaxSchemas
    /\ checked = 0
    /\ calls = <<>>
    /\ stdout = <<>>
    /\ exit = "running"
    /\ error = "none"
    /\ lookup \in LookupFailures

\* sys.exit(message) in a handler, or an exception nothing catches
Fail(e) ==
    /\ pc' = "exited"
    /\ exit' = "nonzero"
    /\ error' = e

\* lines 31-32, the file opens and parses
LoadDocument ==
    /\ pc = "start"
    /\ data' = input
    /\ pc' = "loaded"
    /\ UNCHANGED <<input, cleaned_data, runtime_overrides, overrides, schema_paths,
                   checked, calls, stdout, exit, error, lookup>>

\* lines 31-32 raise, lines 50-55 exit
LoadFails ==
    /\ pc = "start"
    /\ \E e \in {"FileNotFoundError", "JSONDecodeError"} : Fail(e)
    /\ UNCHANGED <<input, data, cleaned_data, runtime_overrides, overrides, schema_paths,
                   checked, calls, stdout, lookup>>

\* line 35
ApplyRuntimeOverrides ==
    /\ pc = "loaded"
    /\ \E r \in {apply_runtime_overrides(data, runtime_overrides)} :
          IF r.r = "raise"
          THEN /\ Fail(r.e)
               /\ UNCHANGED <<data, cleaned_data, overrides>>
          ELSE /\ data' = r.v.doc
               /\ cleaned_data' = r.v.doc
               /\ overrides' = r.v.overrides
               /\ pc' = "validate"
               /\ UNCHANGED <<exit, error>>
    /\ UNCHANGED <<input, runtime_overrides, schema_paths, checked, calls, stdout, lookup>>

\* variant: a ValidationError is not caught as fatal
IsFatalSchemaErrorOnly(verdict) == verdict = "SchemaError"

\* lines 56-61: the answers of validate() that end the run
IsFatal(verdict) == verdict # "conforms"

\* lines 37-40, one turn of the loop
ValidateSchema ==
    /\ pc = "validate"
    /\ checked < schema_paths
    /\ \E verdict \in Verdicts :
          /\ calls' = Append(calls, [schema |-> checked + 1, instance |-> cleaned_data,
                                     verdict |-> verdict])
          /\ IF IsFatal(verdict)
             THEN Fail(verdict) /\ UNCHANGED checked
             ELSE checked' = checked + 1 /\ UNCHANGED <<pc, exit, error>>
    /\ UNCHANGED <<input, data, cleaned_data, runtime_overrides, overrides, schema_paths,
                   stdout, lookup>>

\* line 43, once the loop is over
RemoveDisabled ==
    /\ pc = "validate"
    /\ checked = schema_paths
    /\ cleaned_data' = remove_disabled_elements(cleaned_data)
    /\ pc' = "pruned"
    /\ UNCHANGED <<input, data, runtime_overrides, overrides, schema_paths, checked, calls,
                   stdout, exit, error, lookup>>

\* lines 49 and 311-312: the document is serialised and printed
Emit ==
    /\ pc = "pruned"
    /\ stdout' = Append(stdout, cleaned_data)
    /\ pc' = "done"
    /\ exit' = "zero"
    /\ UNCHANGED <<input, data, cleaned_data, runtime_overrides, overrides, schema_paths,
                   checked, calls, error, lookup>>

Next ==
    \/ LoadDocument
    \/ LoadFails
    \/ ApplyRuntimeOverrides
    \/ ValidateSchema
    \/ RemoveDisabled
    \/ Emit

Spec == Init /\ [][Next]_vars

-----------------------------------------------------------------------------
(* The pruner on its own: remove_disabled_elements applied, then applied   *)
(* again to its own result.                                                *)

PruneLeaves == {Null, Bool(TRUE), Bool(FALSE), Num(1), Num(5), Str(<<"a">>)}

PruneMembers ==
    {<<>>}
    \cup {<<M("disabled", d)>> : d \in {Bool(TRUE), Bool(FALSE), Num(1), Null}}
    \cup {<<M("k", v)>> : v \in PruneLeaves}
    \cup {<<M("disabled", d), M("k", v)>> : d \in {Bool(TRUE), Bool(FALSE), Num(1), Null},
                                            v \in PruneLeaves}

PruneInner ==
    PruneLeaves
    \cup {Obj(m) : m \in PruneMembers}
    \cup {Arr(l) : l \in SeqsUpTo(PruneLeaves, MaxItems)}

PruneValues ==
    PruneInner
    \cup {Obj(<<M("k", v)>>) : v \in PruneInner}
    \cup {Obj(<<M("k", v), M("j", Num(5))>>) : v \in PruneInner}
    \cup {Arr(<<v>>) : v \in PruneInner}
    \cup {Arr(<<v, Str(<<"a">>)>>) : v \in PruneInner}

PruneInit ==
    /\ pc = "prune0"
    /\ input \in PruneValues
    /\ data = input
    /\ cleaned_data = Null
    /\ runtime_overrides = <<>>
    /\ overrides = <<>>
    /\ schema_paths = 0
    /\ checked = 0
    /\ calls = <<>>
    /\ stdout = <<>>
    /\ exit = "running"
    /\ error = "none"
    /\ lookup = SubscriptError

PruneOnce ==
    /\ pc = "prune0"
    /\ cleaned_data' = remove_disabled_elements(data)
    /\ pc' = "prune1"
    /\ UNCHANGED <<input, data, runtime_overrides, overrides, schema_paths, checked, calls,
                   stdout, exit, error, lookup>>

PruneAgain ==
    /\ pc = "prune1"
    /\ data' = cleaned_data
    /\ cleaned_data' = remove_disabled_elements(cleaned_data)
    /\ pc' = "prune2"
    /\ UNCHANGED <<input, runtime_overrides, overrides, schema_paths, checked, calls,
                   stdout, exit, error, lookup>>

PruneNext == PruneOnce \/ PruneAgain

SpecPrune == PruneInit /\ [][PruneNext]_vars

-----------------------------------------------------------------------------
(* Properties                                                              *)

\* the run got past apply_runtime_overrides
Substituted == pc \in {"validate", "pruned", "done"}

\* apply_runtime_overrides did not return early (line 70)
SubstitutionRuns(doc, text) == ~(DefaultsOf(doc) = <<>> /\ text = <<>>)

\* the token the override string gives for key, <<>> standing for none
PairsFor(text, key) ==
    LET pairs == IF text = <<>> THEN <<>> ELSE split(text, ";")
    IN  {i \in 1..Len(pairs) : split1(pairs[i], "=")[1] = key /\ Len(split1(pairs[i], "=")) = 2}

OverrideDefines(text, key) == PairsFor(text, key) # {}

OverrideValue(text, key) ==
    LET pairs == split(text, ";")
        i == CHOOSE j \in PairsFor(text, key) : TRUE
    IN  Coerce(split1(pairs[i], "=")[2]).v

DefaultDefines(defaults, key) == \E i \in 1..Len(defaults) : HasKey(defaults[i].m, key)

FirstDefaultValue(defaults, key) ==
    LET i == CHOOSE j \in 1..Len(defaults) :
                 /\ HasKey(defaults[j].m, key)
                 /\ \A h \in 1..(j - 1) : ~HasKey(defaults[h].m, key)
    IN  Get(defaults[i].m, key)

BindingKeys == {K("x"), K("o"), K("y"), K("u"), <<"o", "s">>, K(NameElseIf)}

\* C1: once the binding table is built, every key the override string
\* defines is bound to the coerced override value, whatever the defaults say;
\* every other key is bound to the value of the first defaults element that
\* defines it; a key nobody defines is unbound.
C1_OverridePrecedence ==
    Substituted =>
        \A key \in BindingKeys :
            IF OverrideDefines(runtime_overrides, key)
            THEN key \in DOMAIN overrides
                 /\ overrides[key] = OverrideValue(runtime_overrides, key)
            ELSE IF DefaultDefines(DefaultsOf(input), key)
            THEN key \in DOMAIN overrides
                 /\ overrides[key] = FirstDefaultValue(DefaultsOf(input), key)
            ELSE key \notin DOMAIN overrides

\* an override beats a differing default for y, and of two differing
\* defaults for x the first one is bound
C1_Witness ==
    LET defaults == DefaultsOf(input)
    IN  /\ Substituted
        /\ Len(defaults) = 2
        /\ OverrideDefines(runtime_overrides, K("y"))
        /\ HasKey(defaults[2].m, K("y"))
        /\ K("y") \in DOMAIN overrides
        /\ overrides[K("y")] = Num(1)
        /\ Get(defaults[2].m, K("y")) # Num(1)
        /\ ~OverrideDefines(runtime_overrides, K("o"))
        /\ HasKey(defaults[1].m, K("o"))
        /\ HasKey(defaults[2].m, K("o"))
        /\ Get(defaults[1].m, K("o")) # Get(defaults[2].m, K("o"))
        /\ K("o") \in DOMAIN overrides
        /\ overrides[K("o")] = Get(defaults[1].m, K("o"))

\* C2: pruning the pruned value again returns it unchanged.
C2_PruneIdempotent ==
    pc = "prune2" => cleaned_data = data

\* the first pass removed something and left something, and the second pass ran
C2_Witness ==
    /\ pc = "prune2"
    /\ data # input
    /\ data # Null
    /\ cleaned_data = data

\* the texts at the string positions of a value
RECURSIVE StringsOf(_)
StringsOf(v) ==
    IF v.t = "str" THEN {v.s}
    ELSE IF v.t = "obj" THEN UNION {StringsOf(v.m[i].v) : i \in 1..Len(v.m)}
    ELSE IF v.t = "arr" THEN UNION {StringsOf(v.e[i]) : i \in 1..Len(v.e)}
    ELSE {}

Suffix(s, i) == SubSeq(s, i, Len(s))

\* the expressions of the placeholders a text contains
ExpressionsIn(s) ==
    {SubSeq(Suffix(s, i), 2, MatchEnd(Suffix(s, i)) - 1) :
        i \in {j \in 1..Len(s) : MatchesAtHead(Suffix(s, j))}}

NoPlaceholder(v) == \A s \in StringsOf(v) : ExpressionsIn(s) = {}

RECURSIVE NoDisabledTrue(_)
NoDisabledTrue(v) ==
    IF v.t = "obj" THEN
        /\ Get(v.m, K("disabled")) # Bool(TRUE)
        /\ \A i \in 1..Len(v.m) : NoDisabledTrue(v.m[i].v)
    ELSE IF v.t = "arr" THEN \A i \in 1..Len(v.e) : NoDisabledTrue(v.e[i])
    ELSE TRUE

\* the binding table substitution works with, whether or not the run got that far
TableOf(doc, text) == BuildOverrides(doc, text)

\* C3: a document without defaults, placeholders and disabled: true comes
\* out of substitution and pruning equal to the input, for every override string.
C3_RoundTrip ==
    (/\ pc \in {"pruned", "done"}
     /\ ~HasKey(input.m, K("defaults"))
     /\ NoPlaceholder(input)
     /\ NoDisabledTrue(input))
    => cleaned_data = input

\* text that is, in its entirety, one placeholder
IsWholePlaceholder(s) == MatchesAtHead(s) /\ MatchEnd(s) = Len(s)
WholeExpression(s) == SubSeq(s, 2, Len(s) - 1)

BoundToContainer(table, name) == name \in DOMAIN table /\ IsContainer(table[name])

\* every string position of `before` that is exactly ${v}, v bound to an
\* object or array, holds that bound value in `after`
RECURSIVE Spliced(_, _, _)
Spliced(before, after, table) ==
    IF before.t = "str" THEN
        (IsWholePlaceholder(before.s) /\ BoundToContainer(table, WholeExpression(before.s)))
            => after = table[WholeExpression(before.s)]
    ELSE IF before.t = "obj" THEN
        /\ after.t = "obj"
        /\ Len(after.m) = Len(before.m)
        /\ \A i \in 1..Len(before.m) : Spliced(before.m[i].v, after.m[i].v, table)
    ELSE IF before.t = "arr" THEN
        /\ after.t = "arr"
        /\ Len(after.e) = Len(before.e)
        /\ \A i \in 1..Len(before.e) : Spliced(before.e[i], after.e[i], table)
    ELSE TRUE

C5_EmitOnlyAfterValidation ==
    /\ Len(calls) <= schema_paths
    /\ \A i \in 1..Len(calls) :
          /\ calls[i].schema = i
          /\ calls[i].instance = data
          /\ i < Len(calls) => calls[i].verdict = "conforms"
    /\ pc \in {"pruned", "done"} =>
          /\ Len(calls) = schema_paths
          /\ \A i \in 1..Len(calls) : calls[i].verdict = "conforms"
          /\ exit # "nonzero"
    /\ stdout # <<>> =>
          /\ pc = "done"
          /\ exit = "zero"
          /\ error = "none"
          /\ stdout = <<cleaned_data>>
          /\ LET r == apply_runtime_overrides(input, runtime_overrides)
             IN  r.r = "ok" /\ data = r.v.doc
    /\ exit = "nonzero" =>
          /\ pc = "exited"
          /\ error # "none"
          /\ stdout = <<>>
          /\ cleaned_data \in {Null, data}
    /\ error \in Verdicts =>
          /\ calls # <<>>
          /\ calls[Len(calls)].verdict = error

\* two schemas accepted the substituted document, then it was pruned and printed
C5_Witness ==
    /\ pc = "done"
    /\ Len(calls) = 2
    /\ stdout = <<cleaned_data>>
    /\ input # data
    /\ data # cleaned_data
    /\ calls[2].instance = data

\* the run is over and failed
Failed == pc = "exited" /\ exit = "nonzero" /\ stdout = <<>>

\* the document loaded and the run got as far as substituting, with a
\* well-formed override string
ReachedSubstitution ==
    /\ pc \notin {"start", "loaded"}
    /\ data # Null
    /\ SubstitutionRuns(input, runtime_overrides)
    /\ TableOf(input, runtime_overrides).r = "ok"

IsConditional(expression) == ContainsIf(expression) /\ ContainsElse(expression)

HasDisallowedNode(expression) ==
    /\ IsConditional(expression)
    /\ parse(expression).r = "ok"
    /\ ~(NodeKinds(parse(expression).v) \subseteq allowed_types)

\* C6: a run that substitutes a document holding a conditional
\* placeholder with a disallowed node fails and prints nothing.
C6_DisallowedNodeFails ==
    (/\ ReachedSubstitution
     /\ \E s \in StringsOf(Popped(input)) : \E e \in ExpressionsIn(s) : HasDisallowedNode(e))
    => Failed

\* evaluating the conditional reads a name the scalar context lacks
ReadsUndefined(expression, table) ==
    /\ IsConditional(expression)
    /\ parse(expression).r = "ok"
    /\ NodeKinds(parse(expression).v) \subseteq allowed_types
    /\ LET res == Eval(parse(expression).v, ScalarBindings(table))
       IN  res.r = "raise" /\ res.e = lookup

\* C7: a run that substitutes a document holding a conditional
\* placeholder whose evaluation reads a name absent from the scalar context
\* fails, on either kind of interpreter, and prints nothing.
C7_UndefinedVariableFails ==
    (/\ ReachedSubstitution
     /\ \E s \in StringsOf(Popped(input)) : \E e \in ExpressionsIn(s) :
            ReadsUndefined(e, TableOf(input, runtime_overrides).v))
    => (Failed /\ error \in {"SystemExit", "NameError"})

\* x is bound to 2, so the else branch reads the unbound y, on an
\* interpreter that answers with NameError
C7_Witness ==
    /\ pc = "exited"
    /\ error = "NameError"
    /\ lookup = "NameError"
    /\ Get(input.m, K("f")) = Str(<<Open, ExprLazy, Close>>)
    /\ ~HasKey(input.m, K("defaults"))
    /\ runtime_overrides = <<"x", "=", "2", ";", "o", "=", ListLiteral>>

\* v has to survive pruning somewhere: it is a scalar outside every object
\* with disabled: true, or a container holding such a scalar
RECURSIVE HoldsScalar(_)
HoldsScalar(v) ==
    IF v.t = "obj" THEN
        /\ Get(v.m, K("disabled")) # Bool(TRUE)
        /\ \E i \in 1..Len(v.m) : HoldsScalar(v.m[i].v)
    ELSE IF v.t = "arr" THEN \E i \in 1..Len(v.e) : HoldsScalar(v.e[i])
    ELSE TRUE

\* every such scalar of v is in p, under the same key or among the elements
RECURSIVE ScalarsKept(_, _)
ScalarsKept(v, p) ==
    IF v.t = "obj" THEN
        HoldsScalar(v) =>
            /\ p.t = "obj"
            /\ \A i \in 1..Len(v.m) :
                  HoldsScalar(v.m[i].v) =>
                      /\ HasKey(p.m, v.m[i].k)
                      /\ ScalarsKept(v.m[i].v, Get(p.m, v.m[i].k))
    ELSE IF v.t = "arr" THEN
        HoldsScalar(v) =>
            /\ p.t = "arr"
            /\ \A i \in 1..Len(v.e) :
                  HoldsScalar(v.e[i]) => \E j \in 1..Len(p.e) : ScalarsKept(v.e[i], p.e[j])
    ELSE p = v

\* C8: pruning keeps every scalar member and element that no object with
\* disabled: true encloses.
C8_ScalarsNeverRemoved ==
    pc = "prune1" => ScalarsKept(data, cleaned_data)

\* a bare placeholder of a container-bound variable inside a longer text
EmbedsContainer(s, table) ==
    /\ ~IsWholePlaceholder(s)
    /\ \E e \in ExpressionsIn(s) : ~IsConditional(e) /\ BoundToContainer(table, e)

\* C9: a run that substitutes a document where ${v}, v bound to an
\* object or array, sits inside a larger string fails and prints nothing.
C9_EmbeddedComplexFails ==
    (/\ ReachedSubstitution
     /\ \E s \in StringsOf(Popped(input)) :
            EmbedsContainer(s, TableOf(input, runtime_overrides).v))
    => Failed

\* C10: a member that is exactly one conditional placeholder whose
\* evaluation yields a Bool or a String holds that very value after
\* substitution.
C10_ConditionalKeepsType ==
    LET value == Get(input.m, K("f"))
    IN  (/\ Substituted
         /\ SubstitutionRuns(input, runtime_overrides)
         /\ value.t = "str"
         /\ IsWholePlaceholder(value.s)
         /\ IsConditional(WholeExpression(value.s))
         /\ LET res == evaluate_conditional(WholeExpression(value.s), overrides)
            IN  res.r = "ok" /\ res.v.t \in {"bool", "str"})
        => Get(data.m, K("f")) = evaluate_conditional(WholeExpression(value.s), overrides).v

====
